---- MODULE Spec2Model ----
(***************************************************************************)
(* mqtt-explorer-rs: a bounded-duration MQTT capture session.              *)
(*                                                                         *)
(* The controller (main) loads the configuration, creates the client,      *)
(* connects, subscribes, starts consuming and spawns a worker thread.  The *)
(* worker iterates over the receive queue, decoding every message as JSON, *)
(* reconnecting on a None item, and leaves the loop when the elapsed time  *)
(* exceeds the capture duration.  The controller sleeps 15 seconds, joins  *)
(* the worker, writes the captured values and prints the statistics.       *)
(*                                                                         *)
(* Time is a counter of clock quanta, TicksPerSec quanta to the second     *)
(* (the code's Instant counts nanoseconds).  A panic of a thread is the    *)
(* position "panicked" of that thread; the worker's locals keep the values *)
(* they had when the panic was raised.                                     *)
(***************************************************************************)
EXTENDS Integers, Sequences, FiniteSets, TLC

\* ------------------------------------------------------------------ bounds
TicksPerSec == 2      \* clock quanta per second
MaxExtraSecs == 2     \* seconds the clock may run past the controller's sleep
MaxItems == 3         \* items the receive queue surfaces in one run
MaxDuration == 2      \* largest --duration value tried
MaxNegDuration == 1   \* largest magnitude of a negative --duration value tried

\* -------------------------------------------------------- program constants
SleepSecs == 15       \* thread::sleep(Duration::from_secs(15))
ReconnectDelaySecs == 1
MaxI32 == 2147483647
Word == 65536         \* a u64 is kept as four 16-bit words

MaxTicks == (SleepSecs + MaxExtraSecs) * TicksPerSec

\* ------------------------------------------------------------ JSON values
\* serde_json::Value, for the subset of JSON the payloads below use:
\* unsigned integers, strings without escapes, arrays and objects.
JNull == [t |-> "null"]
JNum(n) == [t |-> "num", n |-> n]
JStr(s) == [t |-> "str", s |-> s]
JArr(a) == [t |-> "arr", a |-> a]
JObj(o) == [t |-> "obj", o |-> o]

Digits == <<"0", "1", "2", "3", "4", "5", "6", "7", "8", "9">>
IsDigit(c) == \E i \in 1..10 : Digits[i] = c
DigitVal(c) == (CHOOSE i \in 1..10 : Digits[i] = c) - 1

PFail == [ok |-> FALSE, v |-> JNull, pos |-> 0]
POk(v, pos) == [ok |-> TRUE, v |-> v, pos |-> pos]

\* Map::insert: a repeated key keeps the last value.
MapInsert(o, k, v) == [x \in (DOMAIN o) \cup {k} |-> IF x = k THEN v ELSE o[x]]

RECURSIVE ParseNum(_, _, _)
ParseNum(b, i, acc) ==
    IF i <= Len(b) /\ IsDigit(b[i])
    THEN ParseNum(b, i + 1, acc * 10 + DigitVal(b[i]))
    ELSE POk(JNum(acc), i)

RECURSIVE ParseStr(_, _, _)
\* i is the position after the opening quote
ParseStr(b, i, acc) ==
    IF i > Len(b) THEN PFail
    ELSE IF b[i] = "\"" THEN POk(JStr(acc), i + 1)
    ELSE ParseStr(b, i + 1, Append(acc, b[i]))

RECURSIVE ParseValue(_, _)
RECURSIVE ParseElems(_, _, _)
RECURSIVE ParseMembers(_, _, _)

ParseValue(b, i) ==
    IF i > Len(b) THEN PFail
    ELSE IF IsDigit(b[i]) THEN ParseNum(b, i, 0)
    ELSE IF b[i] = "\"" THEN ParseStr(b, i + 1, <<>>)
    ELSE IF b[i] = "["
         THEN IF i + 1 <= Len(b) /\ b[i + 1] = "]"
              THEN POk(JArr(<<>>), i + 2)
              ELSE ParseElems(b, i + 1, <<>>)
    ELSE IF b[i] = "{"
         THEN IF i + 1 <= Len(b) /\ b[i + 1] = "}"
              THEN POk(JObj(<<>>), i + 2)
              ELSE ParseMembers(b, i + 1, <<>>)
    ELSE PFail

\* i is the position of the next element of an array
ParseElems(b, i, acc) ==
    LET e == ParseValue(b, i) IN
    IF ~e.ok \/ e.pos > Len(b) THEN PFail
    ELSE IF b[e.pos] = "," THEN ParseElems(b, e.pos + 1, Append(acc, e.v))
    ELSE IF b[e.pos] = "]" THEN POk(JArr(Append(acc, e.v)), e.pos + 1)
    ELSE PFail

\* i is the position of the next "key":value member of an object
ParseMembers(b, i, acc) ==
    IF i > Len(b) \/ b[i] # "\"" THEN PFail
    ELSE LET k == ParseStr(b, i + 1, <<>>) IN
         IF ~k.ok \/ k.pos > Len(b) \/ b[k.pos] # ":" THEN PFail
         ELSE LET e == ParseValue(b, k.pos + 1) IN
              IF ~e.ok \/ e.pos > Len(b) THEN PFail
              ELSE IF b[e.pos] = ","
                   THEN ParseMembers(b, e.pos + 1, MapInsert(acc, k.v.s, e.v))
              ELSE IF b[e.pos] = "}"
                   THEN POk(JObj(MapInsert(acc, k.v.s, e.v)), e.pos + 1)
              ELSE PFail

\* serde_json::from_slice: Ok only when the whole slice is one value.
from_slice(b) ==
    LET r == ParseValue(b, 1) IN
    IF r.ok /\ r.pos = Len(b) + 1 THEN [ok |-> TRUE, v |-> r.v]
    ELSE [ok |-> FALSE, v |-> JNull]

\* Value::as_array / Value::as_object: Some only for that variant.
as_array(v) == IF v.t = "arr" THEN [some |-> TRUE, a |-> v.a] ELSE [some |-> FALSE, a |-> <<>>]
as_object(v) == IF v.t = "obj" THEN [some |-> TRUE, o |-> v.o] ELSE [some |-> FALSE, o |-> <<>>]
MapLen(o) == Cardinality(DOMAIN o)

\* ---------------------------------------------------------------- payloads
Q == "\""
P_NotJson == <<"x">>
P_Object == <<"{", "}">>
P_ArrNum == <<"[", "1", "]">>
P_ObjThenNum == <<"[", "{", Q, "a", Q, ":", "1", "}", ",", "1", "]">>
P_EmptyArr == <<"[", "]">>
P_TwoGroups == <<"[", "{", Q, "a", Q, ":", "1", ",", Q, "b", Q, ":", "2", "}", ",", "{", "}", "]">>

Payloads == {P_NotJson, P_Object, P_ArrNum, P_ObjThenNum, P_EmptyArr, P_TwoGroups}

\* ----------------------------------------------------------- configuration
Topic(name, qos) == [name |-> name, qos |-> qos]

\* Config::new, the built-in default
DefaultConfig ==
    [hostname |-> "mqtt://localhost:1883", client_id |-> "TEMP_CLIENT", qos |-> 0,
     username |-> "TEMP_USER", password |-> "temppassword",
     subscribed_topics |-> <<Topic("topic_1", 0), Topic("topic_2", 0)>>]

\* what a well-formed configuration file deserializes to
FileConfig ==
    [hostname |-> "mqtt://broker:1883", client_id |-> "explorer", qos |-> 1,
     username |-> "user", password |-> "secret",
     subscribed_topics |-> <<Topic("t1", 0), Topic("t2", 1)>>]

NoConfig ==
    [hostname |-> "", client_id |-> "", qos |-> 0, username |-> "", password |-> "",
     subscribed_topics |-> <<>>]

ConfigSources == {"absent", "malformed", "valid"}

\* Config::parse_mqtt_topics
parse_mqtt_topics(c) ==
    [topics |-> [i \in 1..Len(c.subscribed_topics) |-> c.subscribed_topics[i].name],
     qos |-> [i \in 1..Len(c.subscribed_topics) |-> c.subscribed_topics[i].qos]]

\* ------------------------------------------------------------------- state
VARIABLES
    now,              \* the clock, in quanta
    cpc,              \* position of the controller (main)
    cpanic,           \* message of the controller's panic, "" when none
    configSource,     \* state of the configuration file read by Config::load
    cfg,              \* the loaded Config
    capture_duration, \* cli.duration.unwrap_or(10), seconds
    connected,        \* the client holds a live connection
    subscribed,       \* topics of the subscribe_many request issued
    connectCalls,     \* history: calls of client.connect
    subscribeCalls,   \* history: calls of client.subscribe_many
    connectResult,    \* history: result of client.connect
    subscribeResult,  \* history: result of client.subscribe_many
    sleepFrom,        \* clock value when the controller went to sleep
    joined,           \* <<tuple>> handed over by handle.join, <<>> before
    outFile,          \* <<content>> of the output file, <<>> while unwritten
    output,           \* <<Output>> once the statistics are built, <<>> before
    wpc,              \* position of the worker thread
    wpanic,           \* the unwrap that panicked in the worker, "" when none
    start,            \* Instant::now() at the worker's start
    res,              \* captured values
    size,             \* accumulated payload bytes
    total_tags,       \* accumulated tag count
    rconn_attempt,    \* failed reconnect attempts logged
    duration,         \* start.elapsed() when the loop was left
    surfaced,         \* history: items taken from rx_queue, in order
    reconnCalls,      \* history: calls of client.reconnect
    reconnResult,     \* history: result of the last client.reconnect call
    clientOwner,      \* who holds the Client: "main", "worker", or "dropped"
    disconnectCalls,  \* history: calls of client.disconnect
    saidDisconnected, \* "Disconnected from the broker!" was logged
    resAtWake         \* history: Len(res) when the controller's sleep ended

invars == <<configSource, cfg, capture_duration>>
connvars == <<connected, subscribed, connectCalls, subscribeCalls, connectResult,
              subscribeResult>>
ctlvars == <<sleepFrom, joined, outFile, output>>
cvars == <<cpc, cpanic, ctlvars>>
wvars == <<wpanic, start, res, size, total_tags, rconn_attempt, duration>>
hvars == <<surfaced, reconnCalls, reconnResult>>
auxvars == <<clientOwner, disconnectCalls, saidDisconnected, resAtWake>>
vars == <<now, invars, connvars, cvars, wpc, wvars, hvars, auxvars>>

InitRest ==
    /\ now = 0
    /\ cpc = "load"
    /\ cpanic = ""
    /\ cfg = NoConfig
    /\ connected = FALSE
    /\ subscribed = <<>>
    /\ connectCalls = 0
    /\ subscribeCalls = 0
    /\ connectResult = "none"
    /\ subscribeResult = "none"
    /\ sleepFrom = 0
    /\ joined = <<>>
    /\ outFile = <<>>
    /\ output = <<>>
    /\ wpc = "idle"
    /\ wpanic = ""
    /\ start = 0
    /\ res = <<>>
    /\ size = 0
    /\ total_tags = 0
    /\ rconn_attempt = 0
    /\ duration = 0
    /\ surfaced = <<>>
    /\ reconnCalls = 0
    /\ reconnResult = "none"
    /\ clientOwner = "main"
    /\ disconnectCalls = 0
    /\ saidDisconnected = FALSE
    /\ resAtWake = 0

\* a run with a capture duration of 0..MaxDuration seconds
Init ==
    /\ configSource \in ConfigSources
    /\ capture_duration \in 0..MaxDuration
    /\ InitRest

\* ------------------------------------------------------------- controller
Panic(msg) == cpc' = "panicked" /\ cpanic' = msg

\* Config::load: File::open(f).expect(..), then from_reader(..).unwrap_or_else(new)
LoadConfig ==
    /\ cpc = "load"
    /\ IF configSource = "absent"
       THEN Panic("Could not open file.") /\ UNCHANGED cfg
       ELSE /\ cfg' = IF configSource = "valid" THEN FileConfig ELSE DefaultConfig
            /\ cpc' = "create"
            /\ UNCHANGED cpanic
    /\ UNCHANGED <<now, configSource, capture_duration, connvars, ctlvars, wpc, wvars,
                   hvars>>
    /\ UNCHANGED auxvars

\* mqtt::Client::new(client_options).expect(..)
CreateClientOk ==
    /\ cpc = "create"
    /\ cpc' = "connect"
    /\ UNCHANGED <<now, invars, connvars, cpanic, ctlvars, wpc, wvars, hvars>>
    /\ UNCHANGED auxvars

CreateClientFail ==
    /\ cpc = "create"
    /\ Panic("Error during client creation")
    /\ UNCHANGED <<now, invars, connvars, ctlvars, wpc, wvars, hvars>>
    /\ UNCHANGED auxvars

\* client.connect(connection_options).expect(..)
ConnectOk ==
    /\ cpc = "connect"
    /\ connectCalls' = connectCalls + 1
    /\ connectResult' = "ok"
    /\ connected' = TRUE
    /\ cpc' = "subscribe"
    /\ UNCHANGED <<now, invars, subscribed, subscribeCalls, subscribeResult, cpanic,
                   ctlvars, wpc, wvars, hvars>>
    /\ UNCHANGED auxvars

ConnectFail ==
    /\ cpc = "connect"
    /\ connectCalls' = connectCalls + 1
    /\ connectResult' = "err"
    /\ Panic("Failed to connect to broker")
    /\ UNCHANGED <<now, invars, connected, subscribed, subscribeCalls, subscribeResult,
                   ctlvars, wpc, wvars, hvars>>
    /\ UNCHANGED auxvars

\* client.subscribe_many(&topics, &qos).expect(..)
SubscribeOk ==
    /\ cpc = "subscribe"
    /\ subscribeCalls' = subscribeCalls + 1
    /\ subscribeResult' = "ok"
    /\ subscribed' = parse_mqtt_topics(cfg).topics
    /\ cpc' = "spawn"
    /\ UNCHANGED <<now, invars, connected, connectCalls, connectResult, cpanic,
                   ctlvars, wpc, wvars, hvars>>
    /\ UNCHANGED auxvars

\* variant: the failure is logged and the session goes on
SubscribeFail_ignored ==
    /\ cpc = "subscribe"
    /\ subscribeCalls' = subscribeCalls + 1
    /\ subscribeResult' = "err"
    /\ cpc' = "spawn"
    /\ UNCHANGED <<now, invars, connected, subscribed, connectCalls, connectResult,
                   cpanic, ctlvars, wpc, wvars, hvars>>
    /\ UNCHANGED auxvars

SubscribeFail ==
    /\ cpc = "subscribe"
    /\ subscribeCalls' = subscribeCalls + 1
    /\ subscribeResult' = "err"
    /\ Panic("Failed to subscribe")
    /\ UNCHANGED <<now, invars, connected, subscribed, connectCalls, connectResult,
                   ctlvars, wpc, wvars, hvars>>
    /\ UNCHANGED auxvars

\* start_consuming, the empty containers, thread::spawn (the closure takes
\* client, rx_queue and the containers by move); main then sleeps
Spawn ==
    /\ cpc = "spawn"
    /\ res' = <<>>
    /\ size' = 0
    /\ total_tags' = 0
    /\ wpc' = "spawned"
    /\ sleepFrom' = now
    /\ cpc' = "sleep"
    /\ UNCHANGED <<now, invars, connvars, cpanic, joined, outFile, output, wpanic,
                   start, rconn_attempt, duration, hvars>>
    /\ clientOwner' = "worker"
    /\ UNCHANGED <<disconnectCalls, saidDisconnected, resAtWake>>

\* thread::sleep(Duration::from_secs(15)) returns.  Once the worker has ended
\* nothing else reads the clock, and the rest of the sleep passes in one step.
WakeAt == sleepFrom + SleepSecs * TicksPerSec

Wake ==
    /\ cpc = "sleep"
    /\ now >= WakeAt \/ wpc \in {"returned", "panicked"}
    /\ now' = IF now >= WakeAt THEN now ELSE WakeAt
    /\ cpc' = "join"
    /\ UNCHANGED <<invars, connvars, cpanic, ctlvars, wpc, wvars, hvars>>
    /\ resAtWake' = Len(res)
    /\ UNCHANGED <<clientOwner, disconnectCalls, saidDisconnected>>

\* variant: the results are read when the sleep ends, the worker running or not
Join_noWait ==
    /\ cpc = "join"
    /\ IF wpc # "panicked"
       THEN /\ joined' = <<[res |-> res, size |-> size, duration |-> duration,
                            total_tags |-> total_tags]>>
            /\ cpc' = "write"
            /\ UNCHANGED cpanic
       ELSE Panic("Failed to join thread") /\ UNCHANGED joined
    /\ UNCHANGED <<now, invars, connvars, sleepFrom, outFile, output, wpc, wvars,
                   hvars>>
    /\ UNCHANGED auxvars

\* handle.join().expect("Failed to join thread")
Join ==
    /\ cpc = "join"
    /\ wpc \in {"returned", "panicked"}
    /\ IF wpc = "returned"
       THEN /\ joined' = <<[res |-> res, size |-> size, duration |-> duration,
                            total_tags |-> total_tags]>>
            /\ cpc' = "write"
            /\ UNCHANGED cpanic
       ELSE Panic("Failed to join thread") /\ UNCHANGED joined
    /\ UNCHANGED <<now, invars, connvars, sleepFrom, outFile, output, wpc, wvars,
                   hvars>>
    /\ UNCHANGED auxvars

\* File::create(..).unwrap(), to_writer_pretty(&mut writer, &res), flush, and
\* the two info! lines: main holds no Client here and calls no disconnect
WriteFileOk ==
    /\ cpc = "write"
    /\ outFile' = <<joined[1].res>>
    /\ cpc' = "output"
    /\ UNCHANGED <<now, invars, connvars, cpanic, sleepFrom, joined, output, wpc,
                   wvars, hvars>>
    /\ saidDisconnected' = TRUE
    /\ UNCHANGED <<clientOwner, disconnectCalls, resAtWake>>

WriteFileFail ==
    /\ cpc = "write"
    /\ Panic("File::create")
    /\ UNCHANGED <<now, invars, connvars, ctlvars, wpc, wvars, hvars>>
    /\ UNCHANGED auxvars

\* `as i32` of a non-negative count below 2^32
AsI32(n) == IF n <= MaxI32 THEN n ELSE n - MaxI32 - MaxI32 - 2

\* Duration::as_secs: whole seconds
as_secs(d) == d \div TicksPerSec

\* the Output literal: every rate divides by duration.as_secs()
BuildOutput ==
    /\ cpc = "output"
    /\ LET r == joined[1]
           secs == as_secs(r.duration)
       IN IF secs = 0
          THEN Panic("attempt to divide by zero") /\ UNCHANGED output
          ELSE /\ output' = <<[subscribed_topics |-> AsI32(Len(parse_mqtt_topics(cfg).topics)),
                               total_messages |-> AsI32(Len(r.res)),
                               total_tags |-> AsI32(r.total_tags),
                               capture_duration |-> AsI32(secs),
                               mqtt_mps |-> AsI32(Len(r.res) \div secs),
                               mqtt_tps |-> AsI32(r.total_tags \div secs),
                               mqtt_throughput |-> r.size \div secs]>>
               /\ cpc' = "done"
               /\ UNCHANGED cpanic
    /\ UNCHANGED <<now, invars, connvars, sleepFrom, joined, outFile, wpc, wvars,
                   hvars>>
    /\ UNCHANGED auxvars

\* ------------------------------------------------------------------ worker
Elapsed == now - start

\* the capture budget of capture_duration seconds is used up at elapsed time e
AfterBudget(e) == e > capture_duration * TicksPerSec

\* History entry of an item taken from rx_queue: whether it arrived after the
\* budget, how far its iteration got ("pending": in the reconnect loop,
\* "checked": the deadline check was reached, "panic": an unwrap panicked),
\* whether that point was after the budget, and the value of the attempt
\* counter when the item arrived.
Item(k, p, st) ==
    [kind |-> k, payload |-> p, arrivedLate |-> AfterBudget(Elapsed), status |-> st,
     endedLate |-> st # "pending" /\ AfterBudget(Elapsed), attempt |-> rconn_attempt]
MsgItem(p, st) == Item("msg", p, st)
NoneItem == Item("none", <<>>, "pending")

\* variant: the deadline compared in whole seconds
DeadlinePassed_wholeSecs(elapsed) == as_secs(elapsed) > capture_duration

\* variant: a negative duration clamped to 0 before the conversion
AsU64_clamped(d) ==
    IF d >= 0 THEN [w3 |-> 0, w2 |-> 0, w1 |-> d \div Word, w0 |-> d % Word]
    ELSE [w3 |-> 0, w2 |-> 0, w1 |-> 0, w0 |-> 0]

\* `as u64` of an i32: sign extension, the 64 bits read as unsigned
AsU64(d) ==
    IF d >= 0 THEN [w3 |-> 0, w2 |-> 0, w1 |-> d \div Word, w0 |-> d % Word]
    ELSE LET m == d + MaxI32 + 1   \* the low 31 bits of d
         IN [w3 |-> Word - 1, w2 |-> Word - 1,
             w1 |-> (Word \div 2) + (m \div Word), w0 |-> m % Word]

\* a > b for two u64
U64Gt(a, b) ==
    \/ a.w3 > b.w3
    \/ a.w3 = b.w3 /\ a.w2 > b.w2
    \/ a.w3 = b.w3 /\ a.w2 = b.w2 /\ a.w1 > b.w1
    \/ a.w3 = b.w3 /\ a.w2 = b.w2 /\ a.w1 = b.w1 /\ a.w0 > b.w0

\* Duration > Duration::from_secs(secs): whole seconds first, then the rest
DurationGt(elapsed, secs) ==
    \/ U64Gt(AsU64(as_secs(elapsed)), secs)
    \/ AsU64(as_secs(elapsed)) = secs /\ elapsed % TicksPerSec > 0

\* variant: the deadline test is not strict
DeadlinePassed_nonStrict(elapsed) ==
    \/ DurationGt(elapsed, AsU64(capture_duration))
    \/ AsU64(as_secs(elapsed)) = AsU64(capture_duration) /\ elapsed % TicksPerSec = 0

\* elapsed > Duration::from_secs(capture_duration as u64)
DeadlinePassed(elapsed) == DurationGt(elapsed, AsU64(capture_duration))

\* the tail of the loop body, then the return of the closure, which drops
\* the Client the closure owns
DeadlineCheck ==
    IF DeadlinePassed(Elapsed)
    THEN wpc' = "returned" /\ duration' = Elapsed /\ clientOwner' = "dropped"
    ELSE wpc' = "recv" /\ UNCHANGED <<duration, clientOwner>>

MarkChecked(h) ==
    [h EXCEPT ![Len(h)].status = "checked", ![Len(h)].endedLate = AfterBudget(Elapsed)]

\* let start = Instant::now(); let mut rconn_attempt = 0
WorkerStart ==
    /\ wpc = "spawned"
    /\ start' = now
    /\ rconn_attempt' = 0
    /\ wpc' = "recv"
    /\ UNCHANGED <<now, invars, connvars, cvars, wpanic, res, size, total_tags,
                   duration, hvars>>
    /\ UNCHANGED auxvars

RECURSIVE TagFold_perMessage(_, _, _)
\* variant: the tag count is assigned from the message instead of added to
TagFold_perMessage(a, i, tags) ==
    LET base == IF i = 1 THEN 0 ELSE tags IN
    IF i > Len(a) THEN [ok |-> TRUE, tags |-> base]
    ELSE IF as_object(a[i]).some
         THEN TagFold_perMessage(a, i + 1, base + MapLen(as_object(a[i]).o))
         ELSE [ok |-> FALSE, tags |-> base]

RECURSIVE TagFold(_, _, _)
\* v.as_array().unwrap().iter().for_each(|x| total_tags += x.as_object().unwrap().len())
TagFold(a, i, tags) ==
    IF i > Len(a) THEN [ok |-> TRUE, tags |-> tags]
    ELSE IF as_object(a[i]).some
         THEN TagFold(a, i + 1, tags + MapLen(as_object(a[i]).o))
         ELSE [ok |-> FALSE, tags |-> tags]

\* variant: an empty array is not kept
push_skipEmpty(r, v) == IF v = JArr(<<>>) THEN r ELSE Append(r, v)

\* res.push(v.clone())
push(r, v) == Append(r, v)

\* an unwrap panics: the closure unwinds and drops the Client it owns
WorkerPanic(what) ==
    /\ wpc' = "panicked"
    /\ wpanic' = what
    /\ clientOwner' = "dropped"
    /\ UNCHANGED duration

\* Some(mqttmsg): one iteration of the loop for a message with payload p
RecvMessage(p) ==
    /\ wpc = "recv"
    /\ Len(surfaced) < MaxItems
    /\ now > start
    /\ size' = size + Len(p)
    /\ LET d == from_slice(p) IN
       IF ~d.ok
       THEN /\ WorkerPanic("from_slice")
            /\ surfaced' = Append(surfaced, MsgItem(p, "panic"))
            /\ UNCHANGED <<res, total_tags>>
       ELSE /\ res' = push(res, d.v)
            /\ IF ~as_array(d.v).some
               THEN /\ WorkerPanic("as_array")
                    /\ surfaced' = Append(surfaced, MsgItem(p, "panic"))
                    /\ UNCHANGED total_tags
               ELSE LET f == TagFold(as_array(d.v).a, 1, total_tags) IN
                    /\ total_tags' = f.tags
                    /\ IF ~f.ok
                       THEN /\ WorkerPanic("as_object")
                            /\ surfaced' = Append(surfaced, MsgItem(p, "panic"))
                       ELSE /\ DeadlineCheck
                            /\ surfaced' = Append(surfaced, MsgItem(p, "checked"))
                            /\ UNCHANGED wpanic
    /\ UNCHANGED <<now, invars, connvars, cvars, start, rconn_attempt, reconnCalls,
                   reconnResult>>
    /\ UNCHANGED <<disconnectCalls, saidDisconnected, resAtWake>>

\* None: the connection was lost; the worker enters the reconnect loop
RecvNone ==
    /\ wpc = "recv"
    /\ Len(surfaced) < MaxItems
    /\ now > start
    /\ connected' = FALSE
    /\ wpc' = "reconnecting"
    /\ surfaced' = Append(surfaced, NoneItem)
    /\ UNCHANGED <<now, invars, subscribed, connectCalls, subscribeCalls, connectResult,
                   subscribeResult, cvars, wvars, reconnCalls, reconnResult>>
    /\ UNCHANGED auxvars

\* variant: the attempt counter lives inside the None branch
ReconnectFail_reset ==
    /\ wpc = "reconnecting"
    /\ now + ReconnectDelaySecs * TicksPerSec <= MaxTicks
    /\ reconnCalls' = reconnCalls + 1
    /\ reconnResult' = "err"
    /\ rconn_attempt' = IF reconnResult = "err" THEN rconn_attempt + 1 ELSE 1
    /\ now' = now + ReconnectDelaySecs * TicksPerSec
    /\ UNCHANGED <<invars, connvars, cvars, wpc, wpanic, start, res, size, total_tags,
                   duration, surfaced>>
    /\ UNCHANGED auxvars

\* client.reconnect() is Err: count, log, sleep one second, try again
ReconnectFail ==
    /\ wpc = "reconnecting"
    /\ now + ReconnectDelaySecs * TicksPerSec <= MaxTicks
    /\ reconnCalls' = reconnCalls + 1
    /\ reconnResult' = "err"
    /\ rconn_attempt' = rconn_attempt + 1
    /\ now' = now + ReconnectDelaySecs * TicksPerSec
    /\ UNCHANGED <<invars, connvars, cvars, wpc, wpanic, start, res, size, total_tags,
                   duration, surfaced>>
    /\ UNCHANGED auxvars

\* variant: the captured set is started afresh on the new connection
ReconnectOk_clears ==
    /\ wpc = "reconnecting"
    /\ reconnCalls' = reconnCalls + 1
    /\ reconnResult' = "ok"
    /\ connected' = TRUE
    /\ DeadlineCheck
    /\ res' = <<>>
    /\ surfaced' = MarkChecked(surfaced)
    /\ UNCHANGED <<now, invars, subscribed, connectCalls, subscribeCalls, connectResult,
                   subscribeResult, cvars, wpanic, start, size, total_tags,
                   rconn_attempt>>
    /\ UNCHANGED <<disconnectCalls, saidDisconnected, resAtWake>>

\* variant: the loop takes the next item without the deadline check
ReconnectOk_noCheck ==
    /\ wpc = "reconnecting"
    /\ reconnCalls' = reconnCalls + 1
    /\ reconnResult' = "ok"
    /\ connected' = TRUE
    /\ wpc' = "recv"
    /\ UNCHANGED <<duration, clientOwner>>
    /\ surfaced' = MarkChecked(surfaced)
    /\ UNCHANGED <<now, invars, subscribed, connectCalls, subscribeCalls, connectResult,
                   subscribeResult, cvars, wpanic, start, res, size, total_tags,
                   rconn_attempt>>
    /\ UNCHANGED <<disconnectCalls, saidDisconnected, resAtWake>>

\* variant: the subscriptions are issued again on the new connection
ReconnectOk_resubscribe ==
    /\ wpc = "reconnecting"
    /\ reconnCalls' = reconnCalls + 1
    /\ reconnResult' = "ok"
    /\ connected' = TRUE
    /\ DeadlineCheck
    /\ subscribeCalls' = subscribeCalls + 1
    /\ surfaced' = MarkChecked(surfaced)
    /\ UNCHANGED <<now, invars, subscribed, connectCalls, connectResult,
                   subscribeResult, cvars, wpanic, start, res, size, total_tags,
                   rconn_attempt>>
    /\ UNCHANGED <<disconnectCalls, saidDisconnected, resAtWake>>

\* client.reconnect() is Ok: the while-let ends, the deadline is checked
ReconnectOk ==
    /\ wpc = "reconnecting"
    /\ reconnCalls' = reconnCalls + 1
    /\ reconnResult' = "ok"
    /\ connected' = TRUE
    /\ DeadlineCheck
    /\ surfaced' = MarkChecked(surfaced)
    /\ UNCHANGED <<now, invars, subscribed, connectCalls, subscribeCalls, connectResult,
                   subscribeResult, cvars, wpanic, start, res, size, total_tags,
                   rconn_attempt>>
    /\ UNCHANGED <<disconnectCalls, saidDisconnected, resAtWake>>

\* the clock advances while the worker waits on rx_queue
Tick ==
    /\ now < MaxTicks
    /\ wpc = "recv"
    /\ now' = now + 1
    /\ UNCHANGED <<invars, connvars, cvars, wpc, wvars, hvars>>
    /\ UNCHANGED auxvars

Receive == \E p \in Payloads : RecvMessage(p)

Next ==
    \/ LoadConfig
    \/ CreateClientOk
    \/ CreateClientFail
    \/ ConnectOk
    \/ ConnectFail
    \/ SubscribeOk
    \/ SubscribeFail
    \/ Spawn
    \/ Wake
    \/ Join
    \/ WriteFileOk
    \/ WriteFileFail
    \/ BuildOutput
    \/ WorkerStart
    \/ Receive
    \/ RecvNone
    \/ ReconnectFail
    \/ ReconnectOk
    \/ Tick

Spec == Init /\ [][Next]_vars

\* a run whose capture duration is longer than the controller's sleep
LongDuration == SleepSecs + 1
InitLong ==
    /\ configSource = "valid"
    /\ capture_duration = LongDuration
    /\ InitRest
SpecLong == InitLong /\ [][Next]_vars

\* a run with any accepted --duration, the negative ones included
InitSigned ==
    /\ configSource = "valid"
    /\ capture_duration \in (0 - MaxNegDuration)..MaxDuration
    /\ InitRest
SpecSigned == InitSigned /\ [][Next]_vars

TypeOK ==
    /\ now \in 0..MaxTicks
    /\ cpc \in {"load", "create", "connect", "subscribe", "spawn", "sleep", "join",
                "write", "output", "done", "panicked"}
    /\ wpc \in {"idle", "spawned", "recv", "reconnecting", "returned", "panicked"}
    /\ Len(surfaced) <= MaxItems
    /\ Len(joined) <= 1 /\ Len(outFile) <= 1 /\ Len(output) <= 1

\* ------------------------------------------------------------- vocabulary
Items == 1..Len(surfaced)
IsMsg(i) == surfaced[i].kind = "msg"
IsNone(i) == surfaced[i].kind = "none"
Decodes(i) == IsMsg(i) /\ from_slice(surfaced[i].payload).ok
Undecodable(i) == IsMsg(i) /\ ~from_slice(surfaced[i].payload).ok
NumMsgs == Cardinality({i \in Items : IsMsg(i)})
NumNone == Cardinality({i \in Items : IsNone(i)})
WorkerEnded == wpc \in {"returned", "panicked"}
JoinPerformed ==
    \/ cpc \in {"write", "output", "done"}
    \/ cpc = "panicked" /\ cpanic \in {"Failed to join thread", "File::create",
                                         "attempt to divide by zero"}

RECURSIVE SumBytes(_)
SumBytes(h) ==
    IF h = <<>> THEN 0
    ELSE (IF Head(h).kind = "msg" THEN Len(Head(h).payload) ELSE 0) + SumBytes(Tail(h))

\* The byte counter follows every message taken from the queue, whatever
\* becomes of the message afterwards.
SizeCountsEveryMessage == size = SumBytes(surfaced)

\* ------------------------------------------------------------------ claims

\* C1: a message whose payload fails to decode is dropped and does not abort
\* the loop: the loop reaches its deadline check for that item and the worker
\* stays in the loop or returns its tuple.
C1_DecodeFailureDoesNotAbort ==
    \A i \in Items :
        Undecodable(i) => /\ wpc \in {"recv", "reconnecting", "returned"}
                          /\ surfaced[i].status = "checked"

\* C2: the loop never ends because of message content: whenever the worker
\* is out of the loop it has left it through the deadline check.
C2_LoopLeftOnlyByDeadline ==
    WorkerEnded => wpc = "returned" /\ AfterBudget(duration)

\* C3: once the controller has joined the worker, the totalBytes it was handed
\* is the sum of the payload lengths of every message the queue surfaced,
\* the undecodable ones included.
C3_TotalBytesHandedOver ==
    JoinPerformed => /\ joined # <<>>
                     /\ joined[1].size = SumBytes(surfaced)

\* C4: the captured set holds exactly one record per successfully decoded
\* message, and the message count printed with the statistics is the length
\* of the captured set written to the output.
C4_CountEqualsLen ==
    /\ Len(res) = Cardinality({i \in Items : Decodes(i)})
    /\ output # <<>> => /\ output[1].total_messages = Len(outFile[1])
                        /\ outFile[1] = res

C4_Witness ==
    /\ output # <<>>
    /\ Len(res) >= 2
    /\ NumNone >= 1

\* C5: as long as the queue has surfaced only {} messages and at most one
\* loss signal, all inside the window, the worker keeps running, the
\* reconnect has returned, and every message has been counted.
C5_Stream ==
    /\ NumNone <= 1
    /\ \A i \in Items : /\ ~surfaced[i].arrivedLate
                        /\ IsMsg(i) => surfaced[i].payload = P_Object
C5_ReconnectThenResume ==
    (C5_Stream /\ wpc # "reconnecting") =>
        /\ wpc # "panicked"
        /\ Len(res) = NumMsgs
        /\ NumNone = 1 => reconnResult = "ok"

\* C6: the reconnect loop is left only after a successful client.reconnect;
\* every failed attempt adds exactly 1 to the attempt counter, sleeps one
\* second and stays in the loop; nothing else changes the counter.
C6_ReconnectRetries ==
    [][ /\ (wpc = "reconnecting" /\ wpc' # "reconnecting") =>
               /\ reconnCalls' = reconnCalls + 1
               /\ reconnResult' = "ok"
               /\ wpc' \in {"recv", "returned"}
        /\ (reconnCalls' # reconnCalls /\ reconnResult' = "err") =>
               /\ rconn_attempt' = rconn_attempt + 1
               /\ now' = now + ReconnectDelaySecs * TicksPerSec
               /\ wpc = "reconnecting" /\ wpc' = "reconnecting"
        /\ ~(reconnCalls' # reconnCalls /\ reconnResult' = "err") =>
               rconn_attempt' = rconn_attempt ]_vars

\* a second loss signal that arrived with the counter already at 1 or more,
\* and a further failed attempt counted on top of it
C6_Witness ==
    /\ NumNone >= 2
    /\ surfaced[Len(surfaced)].kind = "none"
    /\ surfaced[Len(surfaced)].attempt >= 1
    /\ rconn_attempt > surfaced[Len(surfaced)].attempt
    /\ wpc \in {"recv", "returned"}

\* C7: at most one item that arrives after the budget is processed: an item
\* whose iteration ended after the budget is the last one, and the worker
\* has ended with it.
C7_AtMostOneOverrun ==
    /\ Cardinality({i \in Items : surfaced[i].arrivedLate}) <= 1
    /\ \A i \in Items :
           surfaced[i].endedLate => i = Len(surfaced) /\ WorkerEnded

C7_Witness ==
    /\ wpc = "returned"
    /\ Len(surfaced) >= 2
    /\ Len(surfaced) < MaxItems
    /\ ~surfaced[1].arrivedLate
    /\ surfaced[Len(surfaced)].arrivedLate
    /\ now < MaxTicks

\* C8: deriving the per-second statistics with 0 elapsed whole seconds does
\* not crash the controller.
C8_DeriveNeverCrashes ==
    (joined # <<>> /\ as_secs(joined[1].duration) = 0) =>
        cpanic # "attempt to divide by zero"

\* C9: an absent and a malformed configuration both load the built-in
\* default and the session goes on to connect.
C9_ConfigFallback ==
    (configSource \in {"absent", "malformed"} /\ cpc # "load") =>
        /\ cfg = DefaultConfig
        /\ cpanic # "Could not open file."

\* C10: a failed connect or subscribe_many ends the session on the spot: the
\* worker is never spawned, nothing is consumed or written, and connect was
\* called once.
C10_ConnectSubscribeFatal ==
    (connectResult = "err" \/ subscribeResult = "err") =>
        /\ cpc = "panicked"
        /\ wpc = "idle"
        /\ surfaced = <<>> /\ res = <<>>
        /\ joined = <<>> /\ outFile = <<>> /\ output = <<>>
        /\ connectCalls = 1 /\ subscribeCalls <= 1

C10_Witness ==
    /\ connectResult = "ok"
    /\ subscribeResult = "err"
    /\ cpc = "panicked"

\* ConnectOptionsBuilder::clean_session(true)
CleanSession == TRUE

Running == wpc \in {"spawned", "recv", "reconnecting"}
Prefix(a, b) == Len(a) <= Len(b) /\ a = SubSeq(b, 1, Len(a))
Last(h) == h[Len(h)]
NewItem == Len(surfaced') = Len(surfaced) + 1
NewDecodedMsg ==
    NewItem /\ Last(surfaced').kind = "msg" /\ from_slice(Last(surfaced').payload).ok
Tuple == [res |-> res, size |-> size, duration |-> duration, total_tags |-> total_tags]
Checked == {i \in Items : surfaced[i].status = "checked"}

\* the key counts of the groups of v, 0 when v is not a sequence of groups
IsGroups(v) == v.t = "arr" /\ \A i \in 1..Len(v.a) : v.a[i].t = "obj"
RECURSIVE SumKeys(_)
SumKeys(a) == IF Len(a) = 0 THEN 0 ELSE Cardinality(DOMAIN Head(a).o) + SumKeys(Tail(a))
GroupTags(v) == IF IsGroups(v) THEN SumKeys(v.a) ELSE 0

\* C11: while the worker runs it holds the client, and the controller holds
\* no result, file or statistics; what the controller got from join is what
\* the ended worker returned.
C11_ControllerReadsAfterJoin ==
    /\ Running => /\ clientOwner = "worker"
                  /\ joined = <<>> /\ outFile = <<>> /\ output = <<>>
    /\ joined # <<>> => wpc = "returned" /\ joined[1] = Tuple

\* the controller's sleep was over before the worker ended
C11_Witness ==
    /\ joined # <<>>
    /\ Len(joined[1].res) >= 1
    /\ joined[1].duration > SleepSecs * TicksPerSec

\* C12: a finished run went through connect, subscribe, the loop, join and
\* the write, and then disconnected the broker connection.
C12_OrderEndsWithDisconnect ==
    cpc = "done" => /\ connectResult = "ok" /\ subscribeResult = "ok"
                    /\ wpc = "returned"
                    /\ joined # <<>> /\ outFile # <<>>
                    /\ disconnectCalls >= 1

\* C13 as stated: with a duration over the 15 s sleep, the records captured
\* after the sleep ended are missing from what the controller writes.
C13_InFlightLost ==
    (outFile # <<>> /\ capture_duration > SleepSecs /\ Len(res) > resAtWake) =>
        outFile[1] = SubSeq(res, 1, resAtWake)

\* C13 amended: join waits for the loop, so what the controller is handed and
\* writes is the whole captured set, the records captured after the sleep
\* ended included.
C13_NothingLost ==
    /\ cpc \in {"write", "output", "done"} => wpc = "returned" /\ joined # <<>>
    /\ joined # <<>> => joined[1].res = res /\ Len(res) >= resAtWake
    /\ outFile # <<>> => outFile[1] = res

C13_Witness ==
    /\ capture_duration > SleepSecs
    /\ outFile # <<>>
    /\ Len(outFile[1]) > resAtWake

\* C14: a step that takes a decodable message appends its value, adds its
\* byte length, and adds the key counts of its groups, 0 when the value is
\* not a sequence of groups.
C14_DecodedMessageEffect ==
    [][ NewDecodedMsg =>
            LET p == Last(surfaced').payload
                v == from_slice(p).v
            IN /\ res' = Append(res, v)
               /\ size' = size + Len(p)
               /\ total_tags' = total_tags + GroupTags(v) ]_vars

\* C15: no step decreases the three counters, and the captured set grows by
\* one on a step that takes a decodable message and by nothing otherwise.
C15_CountersMonotonic ==
    [][ /\ size' >= size
        /\ total_tags' >= total_tags
        /\ Len(res') = Len(res) + (IF NewDecodedMsg THEN 1 ELSE 0) ]_vars

C15_Witness ==
    /\ wpc = "returned"
    /\ Len(res) >= 2
    /\ total_tags >= 2
    /\ NumNone >= 1

\* C16: every step keeps the captured set as a prefix of the new one; the
\* loss signal and the reconnect attempts leave set and counters alone; a
\* decodable message's value goes to the end of the set and nothing else
\* changes it, so the set is in arrival order, and the file is the set.
C16_AppendOnly ==
    [][ /\ Prefix(res, res')
        /\ (wpc = "reconnecting" \/ wpc' = "reconnecting") =>
               UNCHANGED <<res, size, total_tags>>
        /\ res' = IF NewDecodedMsg
                  THEN Append(res, from_slice(Last(surfaced').payload).v)
                  ELSE res
        /\ outFile' # <<>> => outFile'[1] = res' ]_vars

C16_Witness ==
    /\ outFile # <<>>
    /\ Len(outFile[1]) >= 2
    /\ outFile[1][1] # outFile[1][2]
    /\ NumNone >= 1
    /\ rconn_attempt >= 1

\* C17: the loop stops only in a step that ends an item's iteration at
\* elapsed > D, such a step always stops it, one at elapsed <= D never does,
\* a step that ends no iteration never does, and join returns only after.
C17_DeadlineOnlyAfterItem ==
    [][ /\ (wpc # "returned" /\ wpc' = "returned") =>
               /\ NewItem \/ (wpc = "reconnecting" /\ reconnResult' = "ok"
                              /\ reconnCalls' = reconnCalls + 1)
               /\ Last(surfaced').status = "checked"
               /\ now' - start' > capture_duration * TicksPerSec
        /\ (surfaced' # surfaced /\ Last(surfaced').status = "checked") =>
               wpc' = IF now' - start' > capture_duration * TicksPerSec
                      THEN "returned" ELSE "recv"
        /\ surfaced' = surfaced => (wpc' = "returned" <=> wpc = "returned")
        /\ cpc' \in {"write", "output", "done"} => wpc' = "returned" ]_vars

\* the budget is long over, the queue is silent, the controller sits in join
C17_Witness ==
    /\ cpc = "join"
    /\ wpc = "recv"
    /\ Len(surfaced) < MaxItems
    /\ Elapsed > (capture_duration + SleepSecs - MaxDuration) * TicksPerSec

\* C18: a loss signal puts the worker in the reconnect loop; until a
\* reconnect succeeds no item is taken and set and counters stay; the
\* successful reconnect is followed by the deadline check.
C18_ReconnectBlocksLoop ==
    [][ /\ (NewItem /\ Last(surfaced').kind = "none") =>
               /\ wpc = "recv" /\ wpc' = "reconnecting"
               /\ UNCHANGED <<res, size, total_tags>>
        /\ wpc = "reconnecting" =>
               /\ Len(surfaced') = Len(surfaced)
               /\ UNCHANGED <<res, size, total_tags>>
               /\ wpc' \in {"reconnecting", "recv", "returned"}
               /\ wpc' # "reconnecting" =>
                      /\ reconnResult' = "ok"
                      /\ wpc' = IF now' - start' > capture_duration * TicksPerSec
                                THEN "returned" ELSE "recv" ]_vars

\* a loss signal inside the window whose reconnect, after a failed attempt,
\* returned past the deadline
C18_Witness ==
    /\ surfaced # <<>>
    /\ Last(surfaced).kind = "none"
    /\ Last(surfaced).status = "checked"
    /\ ~Last(surfaced).arrivedLate
    /\ Last(surfaced).endedLate
    /\ rconn_attempt >= 1
    /\ wpc = "returned"

\* C19: subscribe_many is called once, after the successful connect and
\* before the worker exists, with all the configured topics; no reconnect
\* adds a call.
C19_SubscribedOnce ==
    /\ CleanSession
    /\ subscribeCalls <= 1
    /\ subscribeCalls = 1 => connectResult = "ok" /\ connectCalls = 1
    /\ wpc # "idle" =>
           /\ subscribeCalls = 1 /\ subscribeResult = "ok"
           /\ subscribed = parse_mqtt_topics(cfg).topics
           /\ Len(subscribed) = Len(cfg.subscribed_topics)

\* a message consumed after a reconnect
C19_Witness ==
    /\ Len(surfaced) >= 2
    /\ surfaced[Len(surfaced) - 1].kind = "none"
    /\ Last(surfaced).kind = "msg" /\ Last(surfaced).status = "checked"
    /\ reconnResult = "ok"
    /\ subscribeCalls = 1

\* C20: for D >= 0 an iteration stops the loop exactly when it ends at
\* elapsed > D seconds, so D = 0 stops after the first processed item; for
\* D < 0 the threshold is 2^64 + D seconds and the loop does not stop.
C20_DeadlineIsDurationSeconds ==
    /\ capture_duration >= 0 =>
           \A i \in Checked :
               surfaced[i].endedLate <=> (i = Len(surfaced) /\ wpc = "returned")
    /\ capture_duration = 0 => Cardinality(Checked) <= 1
    /\ capture_duration < 0 => wpc # "returned" /\ joined = <<>>

C20_Witness ==
    /\ capture_duration < 0
    /\ Len(surfaced) = MaxItems
    /\ Checked = Items
    /\ wpc = "recv"
    /\ now = MaxTicks
====
